---------------------------- MODULE Spec2Model ----------------------------
(***************************************************************************)
(* ECS agent connection monitoring: the Lambda handler of                  *)
(* code/lambda_event_bridge_monitor.py and the ECSNode / SNSTopic classes  *)
(* of code/commonlib/commonlib.py.                                         *)
(*                                                                         *)
(* One invocation of handler(event, context) is a run of the control       *)
(* positions below (pc).  The records of event["Records"] are read in      *)
(* order, one per loop iteration; every answer of an AWS API (ECS, EC2,    *)
(* SSM, SNS) is an input of the step that issues the call.                 *)
(*                                                                         *)
(* Strings the code only compares for equality are TLA+ strings.  Strings  *)
(* the code takes apart (regular expression, lower(), rsplit, f-strings)   *)
(* are sequences of one-character strings.                                 *)
(***************************************************************************)
EXTENDS Integers, Sequences, FiniteSets, TLC

(***************************************************************************)
(* Bounds of the model.                                                    *)
(***************************************************************************)
\* Records of one batch (event["Records"]).
MaxRecords == 2
\* Invocations of handler in one behaviour.
MaxInvocations == 2

(***************************************************************************)
(* Python values.                                                          *)
(***************************************************************************)
\* Python's None where the code reads an optional string.
None == "<None>"
\* The default of os.environ.get("sendEmailNotification", False).
PyFalse == "<False>"

Range(s) == {s[i] : i \in 1..Len(s)}

(***************************************************************************)
(* Characters.                                                             *)
(***************************************************************************)
UpperLetters ==
    <<"A","B","C","D","E","F","G","H","I","J","K","L","M",
      "N","O","P","Q","R","S","T","U","V","W","X","Y","Z">>
LowerLetters ==
    <<"a","b","c","d","e","f","g","h","i","j","k","l","m",
      "n","o","p","q","r","s","t","u","v","w","x","y","z">>

\* str.lower() on one ASCII character.
LowerChar(c) ==
    IF c \in Range(UpperLetters)
    THEN LowerLetters[CHOOSE i \in 1..26 : UpperLetters[i] = c]
    ELSE c

\* str.lower().
Lower(s) == [i \in 1..Len(s) |-> LowerChar(s[i])]

\* The character class [a-f\d] of the node-id pattern.
HexLowerChars ==
    {"0","1","2","3","4","5","6","7","8","9","a","b","c","d","e","f"}

\* s[from..] (1-based), the empty sequence when from is past the end.
Suffix(s, from) == IF from > Len(s) THEN <<>> ELSE SubSeq(s, from, Len(s))

(***************************************************************************)
(* Node identifiers, cluster and container-instance ARNs of the model.     *)
(***************************************************************************)
\* "i-0123abcd"
NODE_EC2_SHORT == <<"i","-","0","1","2","3","a","b","c","d">>
\* "i-0123456789abcdef0"
NODE_EC2_LONG ==
    <<"i","-","0","1","2","3","4","5","6","7","8","9","a","b","c","d","e","f","0">>
\* "mi-0123456789abcdef0"
NODE_ANYWHERE ==
    <<"m","i","-","0","1","2","3","4","5","6","7","8","9","a","b","c","d","e","f","0">>

\* The ec2InstanceId values describe_container_instances answers with.
NodeIds == {NODE_EC2_SHORT, NODE_ANYWHERE}

\* "ecs/prod"
CLUSTER_PROD == <<"e","c","s","/","p","r","o","d">>
\* "a/b/dev": two separators
CLUSTER_DEV == <<"a","/","b","/","d","e","v">>
\* "bare": a cluster given by name, no separator
CLUSTER_BARE == <<"b","a","r","e">>

ClusterArns == {CLUSTER_PROD, CLUSTER_BARE}

\* "ci/1"
CONTAINER_INSTANCE_1 == <<"c","i","/","1">>
ContainerInstanceArns == {CONTAINER_INSTANCE_1}

(***************************************************************************)
(* Exceptions.  An exception is its message, str(error): a sequence of     *)
(* the literal pieces of the f-string and the interpolated values.         *)
(***************************************************************************)
\* A result of a call that may raise.
Returned(v) == [raised |-> FALSE, value |-> v, error |-> <<>>]
Raised(msg) == [raised |-> TRUE, value |-> <<>>, error |-> msg]

\* botocore ClientError answers: error.response["Error"] = {Code, Message}.
ClientErrors == {[Code |-> "ThrottlingException", Message |-> "Rate exceeded"]}

\* The messages of the exceptions Python itself raises.
TYPE_ERROR_NOT_STR == <<"the JSON object must be str, bytes or bytearray, not NoneType">>
JSON_DECODE_ERROR == <<"Expecting value: line 1 column 1 (char 0)">>
INDEX_ERROR == <<"list index out of range">>
KeyErrorMessage(key) == <<"'", key, "'">>

\* handler, line 161: raise Exception(f"Error: execution error - {str(error)}").
WrapExecutionError(msg) == <<"Error: execution error - ">> \o msg

\* fetch_ec2_details, lines 93-99.
FetchClientError(e) ==
    <<"Error: An error occurred when fetching instance details - ",
      e.Code, " : ", e.Message>>
FetchOtherError(msg) ==
    <<"Error: An error occurred when fetching instance details - ">> \o msg

\* does_cluster_have_tags, lines 161-167.
TagsClientError(e) ==
    <<"Error: An error occurred when checking Cluster tags - ",
      e.Code, " : ", e.Message>>
TAGS_OTHER_ERROR == <<"Error: An error occurred when checking Cluster tags.">>

\* send_email, lines 214-220.
SendClientError(e) ==
    <<"Error: An error occurred when sending the e-mail - ",
      e.Code, " : ", e.Message>>
SendOtherError(msg) ==
    <<"Error: An error occurred when sending the e-mail - ">> \o msg

(***************************************************************************)
(* The inbound records.                                                    *)
(***************************************************************************)
\* JSON literals of detail.agentConnected: false, true, and the number 0
\* (0 == False in Python, but 0 is not False).
JSON_FALSE == "false"
JSON_TRUE == "true"
JSON_ZERO == "0"

ECS_SOURCE == "aws.ecs"
STATE_CHANGE == "ECS Container Instance State Change"

Details ==
    [ containerInstanceArn : ContainerInstanceArns,
      clusterArn : ClusterArns,
      agentConnected : {JSON_FALSE, JSON_TRUE, JSON_ZERO},
      status : {"ACTIVE", "DRAINING"} ]

MakePayload(source, detail_type, detail) ==
    ("source" :> source) @@ ("detail-type" :> detail_type) @@ ("detail" :> detail)

\* Decoded event objects: complete ones, and one without its "detail".
Payloads ==
    { MakePayload(s, t, d) :
        s \in {ECS_SOURCE, "aws.ec2"},
        t \in {STATE_CHANGE, "ECS Task State Change"},
        d \in Details }
    \cup { ("source" :> ECS_SOURCE) @@ ("detail-type" :> STATE_CHANGE) }

\* What json.loads gives for the JSON text "null".
PayloadNone == [py_none |-> TRUE]

\* The body of an SQS record: text that is no JSON, the JSON text "null", or
\* the JSON text of an event object.
Bodies ==
    { [json |-> "invalid"], [json |-> "null"] }
    \cup { [json |-> "object", value |-> p] : p \in Payloads }

\* An SQS record, with or without a "body".
Records ==
    { [messageId |-> "m"] } \cup { [messageId |-> "m", body |-> b] : b \in Bodies }

\* No record / object bound yet.
NoObject == [unbound |-> TRUE]

\* json.loads(record.get("body", None)), line 77.
json_loads(rec) ==
    IF "body" \notin DOMAIN rec THEN Raised(TYPE_ERROR_NOT_STR)
    ELSE IF rec.body.json = "invalid" THEN Raised(JSON_DECODE_ERROR)
    ELSE IF rec.body.json = "null" THEN Returned(PayloadNone)
    ELSE Returned(rec.body.value)

\* Mutant: the detail-type of the event is not checked.
SanityError_source_only(p) ==
    IF p = PayloadNone THEN <<"Message empty! No details to process.">>
    ELSE IF p["source"] # ECS_SOURCE THEN
        <<"Only 'aws.ecs' events and Instance state changes are supported.">>
    ELSE <<>>

\* The sanity checks, lines 80-89: the message of the error they raise, or
\* the empty sequence when they pass.
SanityError(p) ==
    IF p = PayloadNone THEN <<"Message empty! No details to process.">>
    ELSE IF "source" \notin DOMAIN p THEN KeyErrorMessage("source")
    ELSE IF p["source"] # ECS_SOURCE THEN
        <<"Only 'aws.ecs' events and Instance state changes are supported.">>
    ELSE IF "detail-type" \notin DOMAIN p THEN KeyErrorMessage("detail-type")
    ELSE IF p["detail-type"] # STATE_CHANGE THEN
        <<"Only 'aws.ecs' events and Instance state changes are supported.">>
    ELSE <<>>

\* Mutant: the status of the event is not looked at.
NeedsNoProcessing_flag_only(p) == p["detail"].agentConnected # JSON_FALSE

\* Lines 91-94: the event itself says the agent reconnected, or the instance
\* is not ACTIVE.  (Only evaluated on a payload that has its "detail".)
NeedsNoProcessing(p) ==
    \/ p["detail"].agentConnected # JSON_FALSE
    \/ p["detail"].status # "ACTIVE"

(***************************************************************************)
(* ECSNode.                                                                *)
(***************************************************************************)
\* "\d" of a str pattern also matches the decimal digits outside ASCII; this
\* element stands for one of them (ARABIC-INDIC DIGIT THREE).
UNICODE_DIGIT == "U+0663"
LINE_FEED == "\n"
PatternClass == HexLowerChars \cup {UNICODE_DIGIT}

\* re.compile(r"^i-(?:[a-f\d]{8}|[a-f\d]{17})$").match(node_id), line 72.
\* "$" matches at the end and also just before a line feed that ends the string.
IsEc2InstanceId(node_id) ==
    \E n \in {8, 17} :
        /\ \/ Len(node_id) = n + 2
           \/ Len(node_id) = n + 3 /\ node_id[n + 3] = LINE_FEED
        /\ node_id[1] = "i"
        /\ node_id[2] = "-"
        /\ \A i \in 3..(n + 2) : node_id[i] \in PatternClass

\* Mutant: every ping status but "Inactive" counts as running.
PingToStatus_not_inactive(ping_status) ==
    IF ping_status # "Inactive" THEN "running" ELSE "not-running"

\* Lines 86-89: the SSM ping status as an instance status.
PingToStatus(ping_status) ==
    IF ping_status = "Online" THEN "running" ELSE "not-running"

\* get_ec2_item, lines 101-111.
get_ec2_item(self) ==
    [ ec2InstanceId |-> self.ec2_id,
      clusterArn |-> self.cluster_arn,
      agentConnected |-> self.agent_connected ]

\* Mutant: every status but "stopped" counts as running.
is_ec2_running_not_stopped(self) == self.instance_status # "stopped"

\* is_ec2_running, lines 113-123.
is_ec2_running(self) == self.instance_status = "running"

\* is_agent_connected, lines 169-180.
is_agent_connected(self) == self.agent_connected

\* Mutant: only the tag key is checked for None.
TagsUnset_key_only(tag_key, tag_value) == tag_key = None

\* does_cluster_have_tags, line 135: the check answers False without a query.
TagsUnset(tag_key, tag_value) == tag_key = None \/ tag_value = None

\* Mutant: key and value may match in different entries.
TagsMatch_any_entry(cluster_tags, tag_key, tag_value) ==
    /\ \E i \in 1..Len(cluster_tags) : cluster_tags[i].key = tag_key
    /\ \E i \in 1..Len(cluster_tags) : cluster_tags[i].value = tag_value

\* does_cluster_have_tags, lines 152-159: the filter over the cluster's tags.
TagsMatch(cluster_tags, tag_key, tag_value) ==
    \E i \in 1..Len(cluster_tags) :
        cluster_tags[i].key = tag_key /\ cluster_tags[i].value = tag_value

\* Mutant: the flag is compared without lower().
MonitorAll_case_sensitive(flag) ==
    flag \in {<<"t","r","u","e">>, <<"y","e","s">>}

\* Line 112: check_all_clusters.lower() in ['true', 'yes'].
MonitorAll(check_all_clusters) ==
    Lower(check_all_clusters) \in {<<"t","r","u","e">>, <<"y","e","s">>}

(***************************************************************************)
(* The notification.                                                       *)
(***************************************************************************)
\* Lines 131-135.
NotificationText(node_id, cluster_arn) ==
    <<"[ISSUE] ECS Container Instance ">> \o node_id
        \o <<" from Cluster ">> \o cluster_arn
        \o <<" has the ECS Agent disconnected.">>

\* Line 141.
EmailSubject(node_id) == <<"[ISSUE] ECS Instance - ">> \o node_id

\* Mutant: the list of processed nodes is never consulted.
AlreadyProcessed_never(node_id, nodes) == FALSE

\* Mutant: the membership test is inverted.
AlreadyProcessed_inverted(node_id, nodes) == node_id \notin Range(nodes)

\* Line 123: node_id in already_processed_nodes.
AlreadyProcessed(node_id, nodes) == node_id \in Range(nodes)

\* str.rsplit("/", 1) of line 147 has a second element.
HasSeparator(s) == \E i \in 1..Len(s) : s[i] = "/"

\* str(clusterArn).rsplit("/", 1)[1], line 147 (for a string with a "/").
ClusterShortName(s) ==
    LET last == CHOOSE i \in 1..Len(s) :
                    s[i] = "/" /\ \A j \in (i + 1)..Len(s) : s[j] # "/"
    IN  Suffix(s, last + 1)

(***************************************************************************)
(* The environment: configuration values and the answers of the AWS APIs.  *)
(***************************************************************************)
TOPIC_ARN == "arn:aws:sns:alerts"

TagKeys == {None, "monitor"}
TagValues == {None, "yes"}
\* "false", "True", "YES"
CheckAllValues ==
    { <<"f","a","l","s","e">>, <<"T","r","u","e">>, <<"Y","E","S">> }
EmailTargets == {TOPIC_ARN, PyFalse}

\* The tag lists describe_clusters answers with.
TagLists ==
    { <<>>,
      <<[key |-> "monitor", value |-> "yes"]>>,
      <<[key |-> "Monitor", value |-> "yes"]>>,
      <<[key |-> "monitor", value |-> "no"], [key |-> "team", value |-> "yes"]>>,
      <<[key |-> "team", value |-> "core"], [key |-> "monitor", value |-> "yes"]>> }

\* ecs.describe_container_instances(...): a ClientError, or its
\* "containerInstances" list (empty when none matches).
ContainerInstanceAnswers ==
    { [error |-> TRUE, client_error |-> e, containerInstances |-> <<>>] :
        e \in ClientErrors }
    \cup { [error |-> FALSE, client_error |-> NoObject, containerInstances |-> <<>>] }
    \cup { [error |-> FALSE, client_error |-> NoObject,
            containerInstances |-> << [ec2InstanceId |-> n, agentConnected |-> a] >>] :
            n \in NodeIds, a \in BOOLEAN }

\* ec2.describe_instances(...): a ClientError, or the State.Name of each
\* instance found (none: "Reservations" is empty).
InstanceStateAnswers ==
    { [error |-> TRUE, client_error |-> e, states |-> <<>>] : e \in ClientErrors }
    \cup { [error |-> FALSE, client_error |-> NoObject, states |-> st] :
            st \in { <<>>, <<"running">>, <<"stopped">> } }

\* ssm.describe_instance_information(...): a ClientError, or the PingStatus of
\* each entry of "InstanceInformationList".
PingAnswers ==
    { [error |-> TRUE, client_error |-> e, pings |-> <<>>] : e \in ClientErrors }
    \cup { [error |-> FALSE, client_error |-> NoObject, pings |-> ps] :
            ps \in { <<>>, <<"Online">>, <<"ConnectionLost">> } }

\* ecs.describe_clusters(..., include=["TAGS"]): a ClientError, no cluster
\* ("clusters" is empty), or the cluster's tags.
ClusterAnswers ==
    { [error |-> TRUE, client_error |-> e, found |-> FALSE, tags |-> <<>>] :
        e \in ClientErrors }
    \cup { [error |-> FALSE, client_error |-> NoObject, found |-> FALSE, tags |-> <<>>] }
    \cup { [error |-> FALSE, client_error |-> NoObject, found |-> TRUE, tags |-> t] :
            t \in TagLists }

\* sns.publish(...): accepted, a ClientError, or botocore's parameter
\* validation refusing a TopicArn that is no string.
\* str() of botocore's ParamValidationError for TopicArn=False: the report
\* follows "Parameter validation failed:" on a line of its own.
PARAM_VALIDATION_ERROR ==
    <<"Parameter validation failed:\nInvalid type for parameter TopicArn, value: False, type: <class 'bool'>, valid types: <class 'str'>">>
PublishAnswers(topic_arn) ==
    IF topic_arn = PyFalse
    THEN { [error |-> "validation", client_error |-> NoObject] }
    ELSE { [error |-> "none", client_error |-> NoObject] }
         \cup { [error |-> "client", client_error |-> e] : e \in ClientErrors }

\* A record of the batch the loop has not taken, with what the APIs would
\* answer for it: a supported event of a node of cluster "ecs/prod", and the
\* node and the cluster's tags as ECS, EC2 and SSM hold them.
UntakenRecords ==
    { [ record |->
          [ messageId |-> "m",
            body |-> [ json |-> "object",
                       value |-> MakePayload(ECS_SOURCE, STATE_CHANGE,
                                    [ containerInstanceArn |-> CONTAINER_INSTANCE_1,
                                      clusterArn |-> CLUSTER_PROD,
                                      agentConnected |-> c,
                                      status |-> "ACTIVE" ]) ] ],
        node |-> [ ec2_id |-> NODE_EC2_SHORT,
                   instance_status |-> st,
                   agent_connected |-> FALSE,
                   cluster_arn |-> CLUSTER_PROD ],
        cluster_tags |-> t ] :
        c \in {JSON_FALSE, JSON_TRUE},
        st \in {"running", "stopped"},
        t \in { <<>>, <<[key |-> "monitor", value |-> "yes"]>> } }

(***************************************************************************)
(* State.                                                                  *)
(***************************************************************************)
VARIABLES
    pc,                      \* control position in handler
    invocation,              \* invocations of handler started so far
    result,                  \* how the invocation ended
    raised,                  \* the exceptions this invocation raised to its caller
    tag_key, tag_value, check_all_clusters, email_notification,  \* lines 64-67
    nrecords,                \* len(event["Records"])
    idx,                     \* records taken from event["Records"] so far
    record,                  \* the loop variable of line 73
    payload,                 \* line 77
    fetched,                 \* fetch_ec2_details: node_id, agent_connected (68-69)
                             \* as the ECS API answered for this record, and the
                             \* state name / ping status of the health query
    ecs_instance,            \* the ECSNode of line 101
    policy,                  \* lines 112-115: the monitoring part of the condition
    eligible,                \* the condition of lines 110-119
    already_processed_nodes, \* line 72
    sns,                     \* the publish requests issued, with SNS's answer
    log_alerts,              \* the warning lines of line 145
    stage,                   \* the stage the current record has reached
    calls,                   \* the API calls issued for the current record
    history,                 \* node, decision and final stage of each finished record
    alerted_earlier,         \* an earlier invocation sent a notification
    left_behind              \* the records of event["Records"] the loop had not
                             \* taken when line 98 returned, each with what the
                             \* APIs hold for it at that moment

vars ==
    << pc, invocation, result, raised, tag_key, tag_value, check_all_clusters,
       email_notification, nrecords, idx, record, payload, fetched, ecs_instance,
       policy, eligible, already_processed_nodes, sns, log_alerts, stage, calls,
       history, alerted_earlier, left_behind >>

config_vars == << tag_key, tag_value, check_all_clusters, email_notification >>
\* What stays as it is while an invocation runs.
batch_vars == << invocation, nrecords, alerted_earlier >>
output_vars == << already_processed_nodes, sns, log_alerts >>

\* Per record: how often each API was called, and the API whose call failed
\* (answered with an error, or with nothing to index).
NoCalls == [container_instances |-> 0, instances |-> 0, pings |-> 0,
            clusters |-> 0, publish |-> 0, failed |-> "none"]
NoFetch == [node_id |-> <<>>, agent_connected |-> FALSE, health |-> "none"]
NoPolicy == [queried |-> FALSE, tags |-> <<>>, value |-> FALSE]

Called(api, failure) ==
    calls' = [calls EXCEPT ![api] = @ + 1,
                           !.failed = IF failure THEN api ELSE @]

Init ==
    /\ pc = "idle"
    /\ invocation = 0
    /\ result = "none"
    /\ raised = <<>>
    /\ tag_key = None
    /\ tag_value = None
    /\ check_all_clusters = <<"f","a","l","s","e">>
    /\ email_notification = PyFalse
    /\ nrecords = 0
    /\ idx = 0
    /\ record = NoObject
    /\ payload = NoObject
    /\ fetched = NoFetch
    /\ ecs_instance = NoObject
    /\ policy = NoPolicy
    /\ eligible = FALSE
    /\ already_processed_nodes = <<>>
    /\ sns = <<>>
    /\ log_alerts = <<>>
    /\ stage = "none"
    /\ calls = NoCalls
    /\ history = <<>>
    /\ alerted_earlier = FALSE
    /\ left_behind = <<>>

\* Mutant: the error is swallowed and the loop goes on.
Fail_swallowed(msg) ==
    /\ pc' = "for"
    /\ UNCHANGED << result, raised >>

\* The except clause of lines 160-161: the invocation ends raising the
\* wrapped exception.
Fail(msg) ==
    /\ pc' = "done"
    /\ result' = "raised"
    /\ raised' = Append(raised, WrapExecutionError(msg))

\* The current record is finished; back to the loop header.
Finish(final_stage, node_id) ==
    /\ pc' = "for"
    /\ stage' = final_stage
    /\ history' = Append(history, [ node_id |-> node_id, eligible |-> eligible,
                                    stage |-> final_stage ])

(***************************************************************************)
(* handler, lines 63-72: a new invocation reads its configuration and      *)
(* starts with an empty list of processed nodes.  What the previous        *)
(* invocation left behind is gone.                                         *)
(***************************************************************************)
Invoke ==
    /\ pc \in {"idle", "done"}
    /\ invocation < MaxInvocations
    /\ invocation' = invocation + 1
    /\ \E k \in TagKeys, v \in TagValues, c \in CheckAllValues, e \in EmailTargets :
        /\ tag_key' = k
        /\ tag_value' = v
        /\ check_all_clusters' = c
        /\ email_notification' = e
    /\ \E n \in 0..MaxRecords : nrecords' = n
    /\ idx' = 0
    /\ already_processed_nodes' = <<>>
    /\ sns' = <<>>
    /\ log_alerts' = <<>>
    /\ history' = <<>>
    /\ alerted_earlier' = (alerted_earlier \/ \E i \in 1..Len(sns) : sns[i].ok)
    /\ left_behind' = <<>>
    /\ result' = "running"
    /\ raised' = <<>>
    /\ record' = NoObject
    /\ payload' = NoObject
    /\ fetched' = NoFetch
    /\ ecs_instance' = NoObject
    /\ policy' = NoPolicy
    /\ eligible' = FALSE
    /\ stage' = "none"
    /\ calls' = NoCalls
    /\ pc' = "for"

\* Line 73: the loop takes the next record.
ForRecord ==
    /\ pc = "for"
    /\ idx < nrecords
    /\ \E r \in Records : record' = r
    /\ idx' = idx + 1
    /\ stage' = "Received"
    /\ payload' = NoObject
    /\ fetched' = NoFetch
    /\ ecs_instance' = NoObject
    /\ policy' = NoPolicy
    /\ eligible' = FALSE
    /\ calls' = NoCalls
    /\ pc' = "decode"
    /\ UNCHANGED << config_vars, batch_vars, left_behind, output_vars, result, raised, history >>

\* Line 158: the loop is over.
Return ==
    /\ pc = "for"
    /\ idx = nrecords
    /\ pc' = "done"
    /\ result' = "returned"
    /\ UNCHANGED << config_vars, batch_vars, left_behind, output_vars, idx, record, payload,
                    fetched, ecs_instance, policy, eligible, stage, calls,
                    raised, history >>

\* Line 77.
Decode ==
    /\ pc = "decode"
    /\ LET r == json_loads(record) IN
        IF r.raised
        THEN Fail(r.error) /\ UNCHANGED << payload, stage >>
        ELSE /\ payload' = r.value
             /\ stage' = "Decoded"
             /\ pc' = "sanity"
             /\ UNCHANGED << result, raised >>
    /\ UNCHANGED << config_vars, batch_vars, left_behind, output_vars, idx, record, fetched,
                    ecs_instance, policy, eligible, calls, history >>

\* Lines 80-89.
SanityChecks ==
    /\ pc = "sanity"
    /\ IF SanityError(payload) # <<>>
       THEN Fail(SanityError(payload))
       ELSE pc' = "early" /\ UNCHANGED << result, raised >>
    /\ UNCHANGED << config_vars, batch_vars, left_behind, output_vars, idx, record, payload,
                    fetched, ecs_instance, policy, eligible, stage, calls, history >>

\* Lines 91-98: return from handler when the event needs no processing.  The
\* records after this one stay in event["Records"], never looked at.
EarlyExit ==
    /\ pc = "early"
    /\ IF "detail" \notin DOMAIN payload
       THEN Fail(KeyErrorMessage("detail")) /\ UNCHANGED left_behind
       ELSE IF NeedsNoProcessing(payload)
       THEN /\ pc' = "done"
            /\ result' = "early_return"
            /\ \E rest \in [1..(nrecords - idx) -> UntakenRecords] :
                left_behind' = rest
            /\ UNCHANGED raised
       ELSE pc' = "resolve" /\ UNCHANGED << result, raised, left_behind >>
    /\ UNCHANGED << config_vars, batch_vars, output_vars, idx, record, payload,
                    fetched, ecs_instance, policy, eligible, stage, calls, history >>

\* fetch_ec2_details lines 61-70 and 93-99, on the answer of
\* describe_container_instances: node_id and agent_connected, or the error.
ContainerInstanceResult(a) ==
    IF a.error THEN Raised(FetchClientError(a.client_error))
    ELSE IF a.containerInstances = <<>> THEN Raised(FetchOtherError(INDEX_ERROR))
    ELSE Returned([ node_id |-> a.containerInstances[1].ec2InstanceId,
                    agent_connected |-> a.containerInstances[1].agentConnected,
                    health |-> "none" ])

\* fetch_ec2_details lines 74-76 and 93-99, on the answer of describe_instances.
InstanceStateResult(a) ==
    IF a.error THEN Raised(FetchClientError(a.client_error))
    ELSE IF a.states = <<>> THEN Raised(FetchOtherError(INDEX_ERROR))
    ELSE Returned(a.states[1])

\* Mutant: a node SSM knows nothing about counts as not running.
PingResult_absent_offline(a) ==
    IF a.error THEN Raised(FetchClientError(a.client_error))
    ELSE IF a.pings = <<>> THEN Returned("not-running")
    ELSE Returned(PingToStatus(a.pings[1]))

\* fetch_ec2_details lines 80-89 and 93-99, on the answer of
\* describe_instance_information.
PingResult(a) ==
    IF a.error THEN Raised(FetchClientError(a.client_error))
    ELSE IF a.pings = <<>> THEN Raised(FetchOtherError(INDEX_ERROR))
    ELSE Returned(PingToStatus(a.pings[1]))

\* does_cluster_have_tags lines 139-167, on the answer of describe_clusters.
ClusterTagsResult(a, key, value) ==
    IF a.error THEN Raised(TagsClientError(a.client_error))
    ELSE IF ~a.found THEN Raised(TAGS_OTHER_ERROR)
    ELSE Returned(TagsMatch(a.tags, key, value))

\* Mutant: send_email logs the error and returns.
PublishError_logged_only(a) == <<>>

\* send_email lines 209-220, on the answer of publish: the error it raises,
\* or the empty sequence.
PublishError(a) ==
    IF a.error = "client" THEN SendClientError(a.client_error)
    ELSE IF a.error = "validation" THEN SendOtherError(PARAM_VALIDATION_ERROR)
    ELSE <<>>

\* Lines 101-104, ECSNode.__init__, fetch_ec2_details lines 61-70.
DescribeContainerInstances ==
    /\ pc = "resolve"
    /\ \E a \in ContainerInstanceAnswers :
        LET r == ContainerInstanceResult(a) IN
        /\ Called("container_instances", a.error \/ a.containerInstances = <<>>)
        /\ IF r.raised
           THEN Fail(r.error) /\ UNCHANGED fetched
           ELSE /\ fetched' = r.value
                /\ pc' = "health"
                /\ UNCHANGED << result, raised >>
    /\ UNCHANGED << config_vars, batch_vars, left_behind, output_vars, idx, record, payload,
                    ecs_instance, policy, eligible, stage, history >>

\* Mutant: the node is named by the container-instance ARN of the event.
NewNode_arn(instance_status) ==
    [ ec2_id |-> payload["detail"].containerInstanceArn,
      instance_status |-> instance_status,
      agent_connected |-> fetched.agent_connected,
      cluster_arn |-> payload["detail"].clusterArn ]

\* Mutant: the agent flag is taken from the event, not from the ECS API.
NewNode_event_flag(instance_status) ==
    [ ec2_id |-> fetched.node_id,
      instance_status |-> instance_status,
      agent_connected |-> (payload["detail"].agentConnected # JSON_FALSE),
      cluster_arn |-> payload["detail"].clusterArn ]

\* ECSNode.__init__ lines 43-48 once fetch_ec2_details returns (line 91).
NewNode(instance_status) ==
    [ ec2_id |-> fetched.node_id,
      instance_status |-> instance_status,
      agent_connected |-> fetched.agent_connected,
      cluster_arn |-> payload["detail"].clusterArn ]

\* fetch_ec2_details lines 72-76: the node is an EC2 instance.
DescribeInstances ==
    /\ pc = "health"
    /\ IsEc2InstanceId(fetched.node_id)
    /\ \E a \in InstanceStateAnswers :
        LET r == InstanceStateResult(a) IN
        /\ Called("instances", a.error \/ a.states = <<>>)
        /\ IF r.raised
           THEN Fail(r.error) /\ UNCHANGED << ecs_instance, stage, fetched >>
           ELSE /\ ecs_instance' = NewNode(r.value)
                /\ fetched' = [fetched EXCEPT !.health =
                                  IF a.states = <<>> THEN "none" ELSE a.states[1]]
                /\ stage' = "Resolved"
                /\ pc' = "policy"
                /\ UNCHANGED << result, raised >>
    /\ UNCHANGED << config_vars, batch_vars, left_behind, output_vars, idx, record, payload,
                    policy, eligible, history >>

\* fetch_ec2_details lines 78-89: the node is an ECS Anywhere node.
DescribeInstanceInformation ==
    /\ pc = "health"
    /\ ~IsEc2InstanceId(fetched.node_id)
    /\ \E a \in PingAnswers :
        LET r == PingResult(a) IN
        /\ Called("pings", a.error \/ a.pings = <<>>)
        /\ IF r.raised
           THEN Fail(r.error) /\ UNCHANGED << ecs_instance, stage, fetched >>
           ELSE /\ ecs_instance' = NewNode(r.value)
                /\ fetched' = [fetched EXCEPT !.health =
                                  IF a.pings = <<>> THEN "none" ELSE a.pings[1]]
                /\ stage' = "Resolved"
                /\ pc' = "policy"
                /\ UNCHANGED << result, raised >>
    /\ UNCHANGED << config_vars, batch_vars, left_behind, output_vars, idx, record, payload,
                    policy, eligible, history >>

\* The first operand of the condition, lines 111-116, with
\* does_cluster_have_tags (lines 135-167) when "or" evaluates it.
CheckMonitoring ==
    /\ pc = "policy"
    /\ \/ /\ MonitorAll(check_all_clusters)
          /\ policy' = [queried |-> FALSE, tags |-> <<>>, value |-> TRUE]
          /\ pc' = "evaluate"
          /\ UNCHANGED << calls, result, raised >>
       \/ /\ ~MonitorAll(check_all_clusters)
          /\ TagsUnset(tag_key, tag_value)
          /\ policy' = [queried |-> FALSE, tags |-> <<>>, value |-> FALSE]
          /\ pc' = "evaluate"
          /\ UNCHANGED << calls, result, raised >>
       \/ /\ ~MonitorAll(check_all_clusters)
          /\ ~TagsUnset(tag_key, tag_value)
          /\ \E a \in ClusterAnswers :
              LET r == ClusterTagsResult(a, tag_key, tag_value) IN
              /\ Called("clusters", a.error \/ ~a.found)
              /\ IF r.raised
                 THEN Fail(r.error) /\ UNCHANGED policy
                 ELSE /\ policy' = [ queried |-> TRUE, tags |-> a.tags,
                                     value |-> r.value ]
                      /\ pc' = "evaluate"
                      /\ UNCHANGED << result, raised >>
    /\ UNCHANGED << config_vars, batch_vars, left_behind, output_vars, idx, record, payload,
                    fetched, ecs_instance, eligible, stage, history >>

\* The condition of lines 110-119, given its first operand.
IsEligible(monitored, self) ==
    monitored /\ is_ec2_running(self) /\ ~is_agent_connected(self)

\* Mutant: the condition is not evaluated; every resolved record takes the
\* notification branch.
Evaluate_skipped ==
    /\ pc = "evaluate"
    /\ policy' = [policy EXCEPT !.tags = <<>>]
    /\ pc' = "dedup"
    /\ UNCHANGED << config_vars, batch_vars, left_behind, output_vars, idx, record, payload,
                    fetched, ecs_instance, calls, result, raised, history, stage,
                    eligible >>

\* Lines 110-119: the condition is decided.  The tags fetched by
\* does_cluster_have_tags are its locals and are gone when it has returned.
Evaluate ==
    /\ pc = "evaluate"
    /\ eligible' = IsEligible(policy.value, ecs_instance)
    /\ stage' = "Evaluated"
    /\ policy' = [policy EXCEPT !.tags = <<>>]
    /\ pc' = IF IsEligible(policy.value, ecs_instance) THEN "dedup" ELSE "skip"
    /\ UNCHANGED << config_vars, batch_vars, left_behind, output_vars, idx, record, payload,
                    fetched, ecs_instance, calls, result, raised, history >>

\* Mutant: the else branch records the node as processed.
Skip_records_node ==
    /\ pc = "skip"
    /\ Finish("Skipped", get_ec2_item(ecs_instance).ec2InstanceId)
    /\ already_processed_nodes' =
        Append(already_processed_nodes, get_ec2_item(ecs_instance).ec2InstanceId)
    /\ UNCHANGED << config_vars, batch_vars, left_behind, sns, log_alerts, idx, record, payload,
                    fetched, ecs_instance, policy, eligible, calls, result, raised >>

\* Lines 153-157: the else branch.
Skip ==
    /\ pc = "skip"
    /\ Finish("Skipped", get_ec2_item(ecs_instance).ec2InstanceId)
    /\ UNCHANGED << config_vars, batch_vars, left_behind, output_vars, idx, record, payload,
                    fetched, ecs_instance, policy, eligible, calls, result, raised >>

\* Mutant: a suppressed record is added to the list once more.
Dedup_records_suppressed ==
    /\ pc = "dedup"
    /\ LET node_id == get_ec2_item(ecs_instance).ec2InstanceId IN
        IF AlreadyProcessed(node_id, already_processed_nodes)
        THEN /\ Finish("Suppressed", node_id)
             /\ already_processed_nodes' = Append(already_processed_nodes, node_id)
        ELSE /\ already_processed_nodes' = Append(already_processed_nodes, node_id)
             /\ pc' = "send"
             /\ UNCHANGED << stage, history >>
    /\ UNCHANGED << config_vars, batch_vars, left_behind, sns, log_alerts, idx, record, payload,
                    fetched, ecs_instance, policy, eligible, calls, result, raised >>

\* Lines 121-128.
Dedup ==
    /\ pc = "dedup"
    /\ LET node_id == get_ec2_item(ecs_instance).ec2InstanceId IN
        IF AlreadyProcessed(node_id, already_processed_nodes)
        THEN /\ Finish("Suppressed", node_id)
             /\ UNCHANGED already_processed_nodes
        ELSE /\ already_processed_nodes' = Append(already_processed_nodes, node_id)
             /\ pc' = "send"
             /\ UNCHANGED << stage, history >>
    /\ UNCHANGED << config_vars, batch_vars, left_behind, sns, log_alerts, idx, record, payload,
                    fetched, ecs_instance, policy, eligible, calls, result, raised >>

\* The publish request of lines 139-143 and send_email line 210.
PublishRequest(topic_arn, self) ==
    [ TopicArn |-> topic_arn,
      Subject |-> EmailSubject(get_ec2_item(self).ec2InstanceId),
      Message |-> NotificationText(get_ec2_item(self).ec2InstanceId,
                                   get_ec2_item(self).clusterArn) ]

\* Mutant: a publish call that fails is tried once more.
SendEmail_retry_once ==
    /\ pc = "send"
    /\ \E a \in PublishAnswers(email_notification) :
        /\ Called("publish", a.error # "none")
        /\ sns' = Append(sns, [ request |-> PublishRequest(email_notification, ecs_instance),
                                ok |-> (a.error = "none") ])
        /\ IF PublishError(a) # <<>> /\ calls.publish = 0
           THEN pc' = "send" /\ UNCHANGED << result, raised >>
           ELSE IF PublishError(a) # <<>>
           THEN Fail(PublishError(a))
           ELSE pc' = "alert" /\ UNCHANGED << result, raised >>
    /\ UNCHANGED << config_vars, batch_vars, left_behind, already_processed_nodes, log_alerts,
                    idx, record, payload, fetched, ecs_instance, policy, eligible,
                    stage, history >>

\* Lines 131-143 and SNSTopic.send_email, lines 209-220.
SendEmail ==
    /\ pc = "send"
    /\ \E a \in PublishAnswers(email_notification) :
        /\ Called("publish", a.error # "none")
        /\ sns' = Append(sns, [ request |-> PublishRequest(email_notification, ecs_instance),
                                ok |-> (a.error = "none") ])
        /\ IF PublishError(a) # <<>>
           THEN Fail(PublishError(a))
           ELSE pc' = "alert" /\ UNCHANGED << result, raised >>
    /\ UNCHANGED << config_vars, batch_vars, left_behind, already_processed_nodes, log_alerts,
                    idx, record, payload, fetched, ecs_instance, policy, eligible,
                    stage, history >>

\* Lines 145-152: the metric log line, then custom_actions (which does nothing).
LogAlert ==
    /\ pc = "alert"
    /\ LET item == get_ec2_item(ecs_instance) IN
        IF ~HasSeparator(item.clusterArn)
        THEN Fail(INDEX_ERROR) /\ UNCHANGED << log_alerts, stage, history >>
        ELSE /\ log_alerts' = Append(log_alerts,
                                     [ cluster |-> ClusterShortName(item.clusterArn),
                                       node_id |-> item.ec2InstanceId ])
             /\ Finish("Dispatched", item.ec2InstanceId)
             /\ UNCHANGED << result, raised >>
    /\ UNCHANGED << config_vars, batch_vars, left_behind, already_processed_nodes, sns, idx,
                    record, payload, fetched, ecs_instance, policy, eligible, calls >>

Next ==
    \/ Invoke
    \/ ForRecord
    \/ Return
    \/ Decode
    \/ SanityChecks
    \/ EarlyExit
    \/ DescribeContainerInstances
    \/ DescribeInstances
    \/ DescribeInstanceInformation
    \/ CheckMonitoring
    \/ Evaluate
    \/ Skip
    \/ Dedup
    \/ SendEmail
    \/ LogAlert

Spec == Init /\ [][Next]_vars

\* A step of the running invocation: everything but the start of a new one.
HandlerStep ==
    \/ ForRecord
    \/ Return
    \/ Decode
    \/ SanityChecks
    \/ EarlyExit
    \/ DescribeContainerInstances
    \/ DescribeInstances
    \/ DescribeInstanceInformation
    \/ CheckMonitoring
    \/ Evaluate
    \/ Skip
    \/ Dedup
    \/ SendEmail
    \/ LogAlert

\* One invocation from its start to its end.
NextOnce ==
    \/ invocation = 0 /\ Invoke
    \/ HandlerStep

\* handler is sequential code and every API call returns: an invocation that
\* can take a step takes one.
FairSpec == Init /\ [][NextOnce]_vars /\ WF_vars(HandlerStep)

(***************************************************************************)
(* Properties.                                                             *)
(***************************************************************************)
\* The publish requests of this invocation whose subject names node_id.
NotificationsFor(node_id) ==
    { i \in 1..Len(sns) :
        sns[i].request.Subject = <<"[ISSUE] ECS Instance - ">> \o node_id }

\* SNS accepted a notification for node_id in this invocation.
SentSuccessfully(node_id) ==
    \E i \in NotificationsFor(node_id) : sns[i].ok

\* The eligibility predicate on the facts of the current record.
CurrentNodeEligible ==
    /\ ecs_instance # NoObject
    /\ policy.value
    /\ ecs_instance.instance_status = "running"
    /\ ~ecs_instance.agent_connected

\* C1: within one invocation at most one notification is sent per node
\* identifier; when two records of the batch resolve to the same node and
\* both are eligible, exactly one notification exists for the node and the
\* later record is suppressed without a publish call.
C1_OneNotificationPerNode ==
    /\ \A i \in 1..Len(sns) : \E n \in NodeIds : i \in NotificationsFor(n)
    /\ \A n \in NodeIds : Cardinality(NotificationsFor(n)) <= 1
    /\ \A k \in 1..Len(history) :
        history[k].eligible
        => /\ Cardinality(NotificationsFor(history[k].node_id)) = 1
           /\ IF \E j \in 1..(k - 1) :
                    history[j].eligible /\ history[j].node_id = history[k].node_id
              THEN history[k].stage = "Suppressed"
              ELSE history[k].stage = "Dispatched"
    /\ stage = "Suppressed" => calls.publish = 0

C1_Witness ==
    /\ Len(history) = 2
    /\ history[1].node_id = history[2].node_id
    /\ history[1].eligible
    /\ history[2].eligible
    /\ history[2].stage = "Suppressed"
    /\ Len(sns) = 1

\* C2: a well-formed supported event whose status is not "ACTIVE" or whose
\* agentConnected is not false reaches the early-exit check without any API
\* call, and that check ends the invocation without an error: no call, no
\* notification, and nothing of the batch happens afterwards (the only step
\* that follows is a new invocation).
C2_EarlyExitHaltsBatch ==
    [][ /\ ( /\ pc = "sanity"
             /\ payload # PayloadNone
             /\ DOMAIN payload = {"source", "detail-type", "detail"}
             /\ payload["source"] = "aws.ecs"
             /\ payload["detail-type"] = "ECS Container Instance State Change" )
           => pc' = "early" /\ calls' = NoCalls
        /\ ( /\ pc = "early"
             /\ "detail" \in DOMAIN payload
             /\ \/ payload["detail"].status # "ACTIVE"
                \/ payload["detail"].agentConnected # "false" )
           => /\ pc' = "done"
              /\ result' = "early_return"
              /\ raised' = <<>>
              /\ calls = NoCalls
              /\ calls' = NoCalls
              /\ ecs_instance' = NoObject
              /\ UNCHANGED << sns, log_alerts, already_processed_nodes, idx, history >>
        /\ (pc = "done" /\ result = "early_return")
           => invocation' = invocation + 1 /\ pc' = "for" /\ idx' = 0
      ]_vars

C2_Witness ==
    /\ pc = "done"
    /\ result = "early_return"
    /\ idx < nrecords
    /\ payload["detail"].agentConnected = "false"
    /\ payload["detail"].status = "DRAINING"

\* An untaken record declares agentConnected=false and ACTIVE, and the node
\* the APIs hold for it satisfies the eligibility predicate under the
\* configuration of this invocation.
UntakenEligible(u) ==
    /\ u.record.body.value["detail"].agentConnected = "false"
    /\ u.record.body.value["detail"].status = "ACTIVE"
    /\ \/ Lower(check_all_clusters) \in {<<"t","r","u","e">>, <<"y","e","s">>}
       \/ /\ tag_key # None
          /\ tag_value # None
          /\ [key |-> tag_key, value |-> tag_value] \in Range(u.cluster_tags)
    /\ u.node.instance_status = "running"
    /\ ~u.node.agent_connected

\* C3 as stated: when an invocation has ended and no record was malformed or
\* unsupported and no call failed, every record of the batch that declares
\* agentConnected=false and ACTIVE and whose node is eligible has an accepted
\* notification for its node, wherever it sits in the batch: the records the
\* loop took, and the records behind the one at which line 98 returned.
C3_EveryEligibleRecordOfBatch ==
    (pc = "done" /\ result \in {"returned", "early_return"})
    => /\ \A k \in 1..Len(history) :
            history[k].eligible => SentSuccessfully(history[k].node_id)
       /\ \A i \in 1..Len(left_behind) :
            UntakenEligible(left_behind[i])
            => SentSuccessfully(left_behind[i].node.ec2_id)

\* C3, amended: a record that the loop takes and that goes through without a
\* failing call, whose event says agentConnected=false and ACTIVE and whose
\* resolved node is eligible, has a successfully sent notification for its
\* node, whatever its place in the batch; so has every earlier eligible record
\* of the invocation.  The loop takes a record only when no record before it
\* made line 98 return or raised; the records behind an early return are
\* left as they are and cause no call and no notification.
C3_EligibleRecordIsNotified ==
    /\ \A k \in 1..Len(history) :
        history[k].eligible => SentSuccessfully(history[k].node_id)
    /\ (pc = "for" /\ idx > 0)
       => /\ Len(history) = idx
          /\ history[idx].node_id = ecs_instance.ec2_id
          /\ history[idx].eligible = CurrentNodeEligible
    /\ (pc \in {"for", "done"} /\ CurrentNodeEligible /\ calls.failed = "none")
       => /\ payload["detail"].agentConnected = "false"
          /\ payload["detail"].status = "ACTIVE"
          /\ SentSuccessfully(ecs_instance.ec2_id)
    /\ left_behind # <<>>
       => /\ pc = "done"
          /\ result = "early_return"
          /\ Len(left_behind) = nrecords - idx
          /\ Len(history) = idx - 1
          /\ calls = NoCalls
          /\ Len(sns) <= Len(history)
    /\ (pc = "done" /\ result = "early_return")
       => Len(left_behind) = nrecords - idx

C3_Witness ==
    /\ Len(history) = 2
    /\ history[1].eligible
    /\ history[2].eligible
    /\ history[1].node_id # history[2].node_id
    /\ history[2].stage = "Dispatched"
    /\ SentSuccessfully(history[2].node_id)

\* The finished records of this invocation that ended Dispatched.
DispatchedRecords == { k \in 1..Len(history) : history[k].stage = "Dispatched" }

\* The current record has caused no publish call and no entry of the list of
\* processed nodes: both hold what the Dispatched records before it left.
CurrentRecordAlertedNothing ==
    /\ calls.publish = 0
    /\ pc \notin {"dedup", "send", "alert"}
    /\ Len(sns) = Cardinality(DispatchedRecords)
    /\ Len(already_processed_nodes) = Cardinality(DispatchedRecords)
    /\ Len(log_alerts) = Cardinality(DispatchedRecords)

\* C4: a batch of one record (agentConnected=false, ACTIVE) whose cluster
\* carries the configured tag and whose node is running with the agent
\* disconnected causes exactly one publish request: to the configured
\* destination, with subject "[ISSUE] ECS Instance - <id>" and a body naming
\* <id> and the cluster, <id> being the ec2InstanceId the ECS API answered
\* with and not the container-instance ARN of the event; SNS accepts it
\* unless the publish call itself fails.
C4_SingleRecordNotification ==
    ( /\ nrecords = 1
      /\ idx = 1
      /\ pc \in {"alert", "for", "done"}
      /\ policy.queried
      /\ CurrentNodeEligible )
    => /\ payload["detail"].agentConnected = "false"
       /\ payload["detail"].status = "ACTIVE"
       /\ Len(sns) = 1
       /\ sns[1].request.TopicArn = email_notification
       /\ sns[1].request.Subject = <<"[ISSUE] ECS Instance - ">> \o fetched.node_id
       /\ sns[1].request.Message =
            <<"[ISSUE] ECS Container Instance ">> \o fetched.node_id
                \o <<" from Cluster ">> \o payload["detail"].clusterArn
                \o <<" has the ECS Agent disconnected.">>
       /\ sns[1].request.Subject #
            <<"[ISSUE] ECS Instance - ">> \o payload["detail"].containerInstanceArn
       /\ sns[1].ok <=> calls.failed = "none"

C4_Witness ==
    /\ nrecords = 1
    /\ result = "returned"
    /\ tag_key = "monitor"
    /\ tag_value = "yes"
    /\ policy.queried
    /\ CurrentNodeEligible
    /\ email_notification = TOPIC_ARN
    /\ Len(sns) = 1
    /\ sns[1].ok

\* C5: a resolved node that is not running is never eligible, whatever the
\* configuration and the cluster's tags: the record causes no publish call
\* and no entry in the list of processed nodes, and it ends Skipped unless
\* the cluster-tag query fails.
C5_NotRunningIsIneligible ==
    (ecs_instance # NoObject /\ ecs_instance.instance_status # "running")
    => /\ ~eligible
       /\ CurrentRecordAlertedNothing
       /\ stage \in {"Resolved", "Evaluated", "Skipped"}
       /\ pc = "for" => (stage = "Skipped" /\ ~history[idx].eligible)
       /\ pc = "done" => \/ result = "returned" /\ stage = "Skipped"
                         \/ result = "raised" /\ calls.failed = "clusters"

C5_Witness ==
    /\ stage = "Skipped"
    /\ ecs_instance.instance_status = "not-running"
    /\ ~ecs_instance.agent_connected
    /\ policy.queried
    /\ policy.value

\* C6: when the ECS API answers agentConnected=true at resolution time, the
\* record is not eligible and causes no notification, although its event
\* said agentConnected=false: the resolved flag decides.
C6_ResolvedAgentFlagDecides ==
    (ecs_instance # NoObject /\ fetched.agent_connected)
    => /\ payload["detail"].agentConnected = "false"
       /\ ecs_instance.agent_connected
       /\ ~eligible
       /\ CurrentRecordAlertedNothing
       /\ stage \in {"Resolved", "Evaluated", "Skipped"}
       /\ pc = "for" => (stage = "Skipped" /\ ~history[idx].eligible)

C6_Witness ==
    /\ stage = "Skipped"
    /\ fetched.agent_connected
    /\ payload["detail"].agentConnected = "false"
    /\ ecs_instance.instance_status = "running"
    /\ policy.value

\* C7: a step that fails (decoding, validation, resolution, tag query, send)
\* ends the invocation with exactly one wrapped exception; nothing of the
\* batch happens after the end; and the loop only goes on to a next record
\* when every record before it went through all its stages.
C7_FailFast ==
    [][ /\ calls'.failed # "none" => (pc' = "done" /\ result' = "raised")
        /\ result' = "raised"
           => /\ pc' = "done"
              /\ Len(raised') = 1
              /\ Len(raised'[1]) > 1
              /\ raised'[1][1] = "Error: execution error - "
        /\ result' # "raised" => raised' = <<>>
        /\ ( /\ pc = "decode"
             /\ \/ "body" \notin DOMAIN record
                \/ record.body.json = "invalid" )
           => result' = "raised"
        /\ ( /\ pc = "sanity"
             /\ \/ payload = PayloadNone
                \/ payload["source"] # "aws.ecs"
                \/ payload["detail-type"] # "ECS Container Instance State Change" )
           => result' = "raised"
        /\ pc = "done"
           => (invocation' = invocation + 1 /\ idx' = 0 /\ sns' = <<>>)
        /\ (pc' = "for" /\ idx' > 0)
           => /\ Len(history') = idx'
              /\ stage' \in {"Dispatched", "Suppressed", "Skipped"}
      ]_vars

C7_Witness ==
    /\ pc = "done"
    /\ result = "raised"
    /\ calls.failed = "publish"
    /\ idx < nrecords
    /\ Len(raised) = 1

\* C8: when describe_container_instances, describe_instances or
\* describe_instance_information answers with an error or with no record,
\* no ECSNode exists, the invocation ends raising the wrapped fetch error,
\* and the record causes no tag query and no notification.
C8_ResolutionFailureAborts ==
    calls.failed \in {"container_instances", "instances", "pings"}
    => /\ ecs_instance = NoObject
       /\ pc = "done"
       /\ result = "raised"
       /\ Len(raised) = 1
       /\ raised[1][1] = "Error: execution error - "
       /\ raised[1][2] = "Error: An error occurred when fetching instance details - "
       /\ stage = "Decoded"
       /\ calls.clusters = 0
       /\ Len(history) = idx - 1
       /\ CurrentRecordAlertedNothing

C8_Witness ==
    /\ calls.failed = "pings"
    /\ idx < nrecords
    /\ raised = << << "Error: execution error - ",
                      "Error: An error occurred when fetching instance details - ",
                      "list index out of range" >> >>

\* C9: with the tag key or the tag value unset, no cluster-tag query is ever
\* issued and the tag check answers False without failing; with the
\* monitor-all flag off as well, no record is eligible and nothing is sent.
C9_UnsetTagsFailClosed ==
    (invocation > 0 /\ (tag_key = None \/ tag_value = None))
    => /\ calls.clusters = 0
       /\ calls.failed # "clusters"
       /\ check_all_clusters = <<"f","a","l","s","e">>
          => /\ pc \in {"evaluate", "skip", "for"} /\ ecs_instance # NoObject
                => policy = [queried |-> FALSE, tags |-> <<>>, value |-> FALSE]
             /\ ~eligible
             /\ \A k \in 1..Len(history) : history[k].stage = "Skipped"
             /\ sns = <<>>
             /\ already_processed_nodes = <<>>
             /\ log_alerts = <<>>

C9_Witness ==
    /\ tag_key = "monitor"
    /\ tag_value = None
    /\ check_all_clusters = <<"f","a","l","s","e">>
    /\ stage = "Skipped"
    /\ ecs_instance.instance_status = "running"
    /\ ~ecs_instance.agent_connected

\* C10: with tag key and value set, the tag check answers True exactly when
\* one entry of the cluster's tags has that key and that value; it answers
\* False for an empty list or no such entry, and it fails only when the
\* query itself fails.
C10_TagMatchIsExact ==
    /\ (pc = "evaluate" /\ policy.queried)
       => /\ tag_key # None
          /\ tag_value # None
          /\ policy.value
             <=> [key |-> tag_key, value |-> tag_value] \in Range(policy.tags)
          /\ result = "running"
    /\ (calls.clusters = 1 /\ calls.failed = "none" /\ stage = "Resolved")
       => (pc = "evaluate" /\ policy.queried /\ result = "running")

C10_Witness ==
    /\ pc = "evaluate"
    /\ policy.queried
    /\ policy.value
    /\ Len(policy.tags) = 2

\* The resolved node of the current record is running with its agent
\* disconnected.
CurrentNodeRunningDisconnected ==
    /\ ecs_instance # NoObject
    /\ ecs_instance.instance_status = "running"
    /\ ~ecs_instance.agent_connected

\* C11: with checkAllClusters "true" or "yes" in any letter case, no
\* cluster-tag query is issued for any record and none can fail; a record
\* whose resolved node is running with the agent disconnected is eligible
\* whatever tag key and value are configured: it is never skipped, a publish
\* request is issued for it unless its node was already notified in this
\* batch, and it ends Dispatched unless the send or the log line fails.
C11_MonitorAllBypassesTags ==
    ( /\ invocation > 0
      /\ Lower(check_all_clusters) \in {<<"t","r","u","e">>, <<"y","e","s">>} )
    => /\ calls.clusters = 0
       /\ calls.failed # "clusters"
       /\ ~policy.queried
       /\ \A k \in 1..Len(history) :
            history[k].stage = "Skipped" => ~history[k].eligible
       /\ (CurrentNodeRunningDisconnected /\ pc \notin {"policy", "evaluate"})
          => /\ eligible
             /\ pc \in {"dedup", "send", "alert", "for", "done"}
             /\ stage \in {"Evaluated", "Dispatched", "Suppressed"}
             /\ pc \in {"alert", "for", "done"}
                => NotificationsFor(ecs_instance.ec2_id) # {}
             /\ stage = "Suppressed"
                => (calls.publish = 0 /\ SentSuccessfully(ecs_instance.ec2_id))
             /\ stage = "Dispatched" => calls.publish = 1
             /\ pc = "for" => stage \in {"Dispatched", "Suppressed"}
             /\ (pc = "done" /\ stage = "Evaluated")
                => /\ result = "raised"
                   /\ \/ calls.failed = "publish"
                      \/ "/" \notin Range(ecs_instance.cluster_arn)

C11_Witness ==
    /\ check_all_clusters = <<"Y","E","S">>
    /\ tag_key = None
    /\ tag_value = "yes"
    /\ stage = "Dispatched"
    /\ CurrentNodeRunningDisconnected
    /\ calls.clusters = 0
    /\ calls.publish = 1

\* The current record fails the validation of lines 76-89: no body, a body
\* that is no JSON, the JSON text "null", or an event of another source or
\* detail-type.
CurrentRecordUnsupported ==
    /\ record # NoObject
    /\ \/ "body" \notin DOMAIN record
       \/ record.body.json \in {"invalid", "null"}
       \/ /\ record.body.json = "object"
          /\ \/ record.body.value["source"] # "aws.ecs"
             \/ record.body.value["detail-type"] # "ECS Container Instance State Change"

\* C12: a record without a body, with a body that cannot be parsed or that
\* decodes to None, or with another source or detail-type never gets past
\* the validation: it ends the invocation with one wrapped error, no API call
\* was issued for it, and it never ends the invocation by the early return,
\* whatever its agentConnected and status say.
C12_ValidationBeforeEarlyExit ==
    CurrentRecordUnsupported
    => /\ pc \in {"decode", "sanity", "done"}
       /\ calls = NoCalls
       /\ ecs_instance = NoObject
       /\ stage \in {"Received", "Decoded"}
       /\ result # "early_return"
       /\ pc = "done"
          => /\ result = "raised"
             /\ Len(raised) = 1
             /\ raised[1][1] = "Error: execution error - "
             /\ Len(history) = idx - 1

C12_Witness ==
    /\ pc = "done"
    /\ result = "raised"
    /\ idx < nrecords
    /\ "body" \in DOMAIN record
    /\ record.body.json = "object"
    /\ "detail" \in DOMAIN record.body.value
    /\ record.body.value["source"] = "aws.ecs"
    /\ record.body.value["detail-type"] = "ECS Task State Change"
    /\ record.body.value["detail"].agentConnected = "true"
    /\ record.body.value["detail"].status = "DRAINING"
    /\ calls = NoCalls

(***************************************************************************)
(* The classification of node identifiers (fetch_ec2_details, line 72) on  *)
(* its own: the ECS API has answered with some identifier, and the step    *)
(* that follows issues the health query the pattern selects.               *)
(***************************************************************************)
\* What an identifier may start with: "i-", "mi-", "I-", "xi-", "i".
IdPrefixes ==
    { <<"i","-">>, <<"m","i","-">>, <<"I","-">>, <<"x","i","-">>, <<"i">> }
\* How many characters follow the prefix.
IdBodyLengths == {7, 8, 9, 16, 17, 18}
\* The character that differs from "0" in the body, and where it stands.
IdBodyChars == {"0", "9", "a", "f", "A", "g", "-", UNICODE_DIGIT}
\* What may follow the body: nothing, "\n", "x", "\n\n".
IdTrailers == { <<>>, <<LINE_FEED>>, <<"x">>, <<LINE_FEED, LINE_FEED>> }

IdBody(n, c, at_end) ==
    [i \in 1..n |-> IF (at_end /\ i = n) \/ (~at_end /\ i = 1) THEN c ELSE "0"]

\* The values of container_instance["ec2InstanceId"] (line 68) the pattern
\* is applied to.
CandidateIds ==
    { p \o IdBody(n, c, e) \o t :
        p \in IdPrefixes, n \in IdBodyLengths, c \in IdBodyChars,
        e \in BOOLEAN, t \in IdTrailers }

\* fetch_ec2_details after line 69: node_id is bound, the pattern of line 72
\* is about to be applied.
InitClassify ==
    /\ pc = "health"
    /\ invocation = 1
    /\ result = "running"
    /\ raised = <<>>
    /\ tag_key = None
    /\ tag_value = None
    /\ check_all_clusters = <<"f","a","l","s","e">>
    /\ email_notification = PyFalse
    /\ nrecords = 1
    /\ idx = 1
    /\ payload = MakePayload(ECS_SOURCE, STATE_CHANGE,
                             [ containerInstanceArn |-> CONTAINER_INSTANCE_1,
                               clusterArn |-> CLUSTER_PROD,
                               agentConnected |-> JSON_FALSE,
                               status |-> "ACTIVE" ])
    /\ record = [messageId |-> "m", body |-> [json |-> "object", value |-> payload]]
    /\ \E n \in CandidateIds :
        fetched = [node_id |-> n, agent_connected |-> FALSE, health |-> "none"]
    /\ ecs_instance = NoObject
    /\ policy = NoPolicy
    /\ eligible = FALSE
    /\ already_processed_nodes = <<>>
    /\ sns = <<>>
    /\ log_alerts = <<>>
    /\ stage = "Decoded"
    /\ calls = [NoCalls EXCEPT !.container_instances = 1]
    /\ history = <<>>
    /\ alerted_earlier = FALSE
    /\ left_behind = <<>>

\* Lines 72-89: one of the two health queries.
NextClassify ==
    \/ DescribeInstances
    \/ DescribeInstanceInformation

SpecClassify == InitClassify /\ [][NextClassify]_vars

\* "i-" followed by exactly 8 or exactly 17 characters of 0-9 and a-f.
ExactVmId(s) ==
    /\ Len(s) \in {10, 19}
    /\ s[1] = "i"
    /\ s[2] = "-"
    /\ \A i \in 3..Len(s) :
        s[i] \in {"0","1","2","3","4","5","6","7","8","9","a","b","c","d","e","f"}

\* C13: an identifier is treated as a virtual-machine identifier (the
\* instance-state query is issued for it) if and only if it is exactly "i-"
\* followed by exactly 8 or 17 characters of 0-9 and a-f; every other string
\* is treated as an externally-registered node (the ping query is issued).
C13_ClassificationIsExact ==
    (calls.instances + calls.pings > 0)
    => /\ calls.instances = 1 <=> ExactVmId(fetched.node_id)
       /\ calls.pings = 1 <=> ~ExactVmId(fetched.node_id)

\* The instance-state query was issued for "i-0000000a" followed by a line feed.
C13_Witness ==
    /\ calls.instances = 1
    /\ fetched.node_id =
         <<"i","-","0","0","0","0","0","0","0","a">> \o <<LINE_FEED>>

\* C14: for every record whose node was resolved, one container-instance
\* query and exactly one health query were issued: the instance-state query
\* when the identifier has the form of an EC2 instance id, the ping query
\* otherwise; and the node counts as running exactly when the instance
\* state name answered is "running" (EC2) or the ping status answered is
\* "Online" (externally registered).
C14_OneHealthQueryDecidesRunning ==
    ecs_instance # NoObject
    => /\ calls.container_instances = 1
       /\ calls.instances + calls.pings = 1
       /\ calls.instances = 1 <=> ExactVmId(fetched.node_id)
       /\ calls.pings = 1 <=> fetched.node_id = NODE_ANYWHERE
       /\ calls.failed \notin {"container_instances", "instances", "pings"}
       /\ ecs_instance.instance_status = "running"
          <=> \/ calls.instances = 1 /\ fetched.health = "running"
              \/ calls.pings = 1 /\ fetched.health = "Online"

C14_Witness ==
    /\ stage = "Resolved"
    /\ calls.pings = 1
    /\ calls.instances = 0
    /\ fetched.node_id = NODE_ANYWHERE
    /\ fetched.health = "ConnectionLost"
    /\ ecs_instance.instance_status # "running"

\* The notifications of this invocation that SNS accepted.
NotificationsSent == { i \in 1..Len(sns) : sns[i].ok }

\* C15: every notification that was sent is followed by one alert line with
\* the cluster short name and the node identifier, and a suppressed, skipped
\* or failed record leaves no alert line: between records and at the end of
\* an invocation there are as many alert lines as notifications sent.
C15_AlertLinePerNotification ==
    /\ Len(log_alerts) <= Cardinality(NotificationsSent)
    /\ Len(log_alerts) = Cardinality(DispatchedRecords)
    /\ stage = "Dispatched"
       => /\ log_alerts[Len(log_alerts)].node_id = ecs_instance.ec2_id
          /\ ecs_instance.cluster_arn = CLUSTER_PROD
             => log_alerts[Len(log_alerts)].cluster = <<"p","r","o","d">>
          /\ sns[Len(sns)].ok
          /\ sns[Len(sns)].request.Subject =
                <<"[ISSUE] ECS Instance - ">> \o log_alerts[Len(log_alerts)].node_id
    /\ pc \in {"for", "done"}
       => Len(log_alerts) = Cardinality(NotificationsSent)

\* The notification for a node of cluster "bare" was accepted, and the
\* invocation ended with the IndexError of line 147 and no alert line.
C15_Witness ==
    /\ pc = "done"
    /\ result = "raised"
    /\ raised = << <<"Error: execution error - ", "list index out of range">> >>
    /\ ecs_instance # NoObject
    /\ ecs_instance.cluster_arn = CLUSTER_BARE
    /\ Len(sns) = 1
    /\ sns[1].ok
    /\ log_alerts = <<>>

\* C16: the list of processed nodes is empty when an invocation starts,
\* whatever earlier invocations sent; within an invocation it only changes by
\* gaining, at its end, the node of the current eligible record that is not
\* yet in it, in the dispatch branch (lines 125-143) whose next step issues
\* the publish request for that node; it never holds a node twice, and every
\* entry but the one whose send is pending has its publish request.
C16_DedupCollectionBatchLocal ==
    [][ /\ invocation' # invocation
           => (already_processed_nodes' = <<>> /\ pc' = "for" /\ idx' = 0)
        /\ invocation' = invocation
           => \/ already_processed_nodes' = already_processed_nodes
              \/ /\ pc = "dedup"
                 /\ pc' = "send"
                 /\ eligible
                 /\ ecs_instance.ec2_id \notin Range(already_processed_nodes)
                 /\ already_processed_nodes' =
                      Append(already_processed_nodes, ecs_instance.ec2_id)
        /\ pc = "send"
           => /\ Len(sns') = Len(sns) + 1
              /\ sns'[Len(sns')].request.Subject =
                   <<"[ISSUE] ECS Instance - ">>
                       \o already_processed_nodes[Len(already_processed_nodes)]
        /\ \A i, j \in 1..Len(already_processed_nodes') :
               already_processed_nodes'[i] = already_processed_nodes'[j] => i = j
        /\ Len(sns') = Len(already_processed_nodes') - (IF pc' = "send" THEN 1 ELSE 0)
      ]_vars

C16_Witness ==
    /\ alerted_earlier
    /\ invocation = 2
    /\ Len(already_processed_nodes) = 2
    /\ already_processed_nodes[1] # already_processed_nodes[2]
    /\ Len(sns) = 2
    /\ sns[2].ok
    /\ stage = "Dispatched"

\* The stages a record ends in.
FinalStages == {"Suppressed", "Dispatched", "Skipped"}

\* C17: the records are taken one by one in the order of the batch; the
\* stage of a record only moves Received -> Decoded -> Resolved -> Evaluated
\* -> one of Suppressed, Dispatched, Skipped; a publish request is only
\* issued for a record that is resolved and evaluated (and eligible); and
\* the next record is only taken when the one before it has reached its
\* final stage.
C17_StagesInOrder ==
    [][ /\ invocation' = invocation
           => /\ idx' \in {idx, idx + 1}
              /\ Len(history') \in {Len(history), Len(history) + 1}
              /\ Len(history') <= idx'
        /\ (invocation' = invocation /\ stage' # stage)
           => \/ stage \in FinalStages \cup {"none"} /\ stage' = "Received"
              \/ stage = "Received" /\ stage' = "Decoded"
              \/ stage = "Decoded" /\ stage' = "Resolved"
              \/ stage = "Resolved" /\ stage' = "Evaluated"
              \/ stage = "Evaluated" /\ stage' \in FinalStages
        /\ (invocation' = invocation /\ idx' # idx)
           => /\ stage' = "Received"
              /\ Len(history) = idx
              /\ idx > 0 => history[idx].stage = stage /\ stage \in FinalStages
        /\ (invocation' = invocation /\ sns' # sns)
           => /\ stage = "Evaluated"
              /\ stage' = "Evaluated"
              /\ ecs_instance # NoObject
              /\ eligible
              /\ calls.container_instances = 1
              /\ calls.instances + calls.pings = 1
        /\ (invocation' = invocation /\ Len(history') # Len(history))
           => /\ stage = "Evaluated"
              /\ history'[Len(history')].stage = stage'
              /\ stage' \in FinalStages
              /\ stage' = "Skipped" <=> ~eligible
              /\ stage' = "Dispatched" => (calls.publish = 1 /\ sns[Len(sns)].ok)
              /\ stage' = "Suppressed" => calls.publish = 0
      ]_vars

C17_Witness ==
    /\ idx = 2
    /\ Len(history) = 2
    /\ history[1].stage = "Skipped"
    /\ history[2].stage = "Dispatched"
    /\ stage = "Dispatched"
    /\ pc = "for"

\* C18: every invocation that started ends, in one of three ways: it
\* returned after the last record, it returned early at a record that needs
\* no processing, or it raised one wrapped exception; and no record causes
\* more than one describe_container_instances call, one health query, one
\* describe_clusters call and one publish call.
C18_TerminatesWithoutRetry ==
    /\ [] ( /\ calls.container_instances <= 1
            /\ calls.instances + calls.pings <= 1
            /\ calls.clusters <= 1
            /\ calls.publish <= 1
            /\ pc = "done"
               => \/ result = "returned" /\ idx = nrecords /\ raised = <<>>
                  \/ result = "early_return" /\ raised = <<>>
                  \/ result = "raised" /\ Len(raised) = 1 )
    /\ (result = "running") ~> (pc = "done")

C18_Witness ==
    /\ pc = "done"
    /\ result = "returned"
    /\ nrecords = 2
    /\ idx = 2
    /\ calls.container_instances = 1
    /\ calls.pings = 1
    /\ calls.clusters = 1
    /\ calls.publish = 1
    /\ Len(history) = 2

\* C19: a record only ends Suppressed when an earlier record of the same
\* invocation was Dispatched for the same node with a notification SNS
\* accepted.  A publish call that fails is the last thing the invocation
\* does: its node is already in the list of processed nodes (line 128), but
\* the invocation ends raising and no later record is taken, so no record
\* is ever suppressed on account of a failed send.
C19_SuppressedAfterSuccessfulSend ==
    /\ \A k \in 1..Len(history) :
        history[k].stage = "Suppressed"
        => /\ \E i \in NotificationsFor(history[k].node_id) : sns[i].ok
           /\ \E j \in 1..(k - 1) :
                /\ history[j].node_id = history[k].node_id
                /\ history[j].stage = "Dispatched"
    /\ \A i \in 1..Len(sns) :
        ~sns[i].ok
        => /\ i = Len(sns)
           /\ pc = "done"
           /\ result = "raised"
           /\ calls.failed = "publish"
           /\ stage = "Evaluated"
           /\ Len(history) = idx - 1
           /\ already_processed_nodes[Len(already_processed_nodes)] = ecs_instance.ec2_id
           /\ sns[i].request.Subject =
                <<"[ISSUE] ECS Instance - ">> \o ecs_instance.ec2_id
           /\ \A k \in 1..Len(history) :
                history[k].node_id = ecs_instance.ec2_id
                => history[k].stage = "Skipped"

C19_Witness ==
    /\ pc = "done"
    /\ result = "raised"
    /\ nrecords = 2
    /\ idx = 1
    /\ email_notification = TOPIC_ARN
    /\ Len(sns) = 1
    /\ ~sns[1].ok
    /\ already_processed_nodes = <<ecs_instance.ec2_id>>

\* C20: a record that is not eligible ends Skipped and leaves the list of
\* processed nodes as it was: every entry of the list is the node of an
\* eligible record.  So when a node is first resolved as not eligible and a
\* later record of the same batch resolves it as eligible, the later record
\* is Dispatched, not Suppressed.
C20_SkippedNodeNotRecorded ==
    /\ \A i \in 1..Len(already_processed_nodes) :
        \/ \E k \in 1..Len(history) :
              /\ history[k].eligible
              /\ history[k].node_id = already_processed_nodes[i]
        \/ /\ pc \in {"send", "alert", "done"}
           /\ ecs_instance # NoObject
           /\ ecs_instance.instance_status = "running"
           /\ ~ecs_instance.agent_connected
           /\ policy.value
           /\ ecs_instance.ec2_id = already_processed_nodes[i]
    /\ \A k \in 1..Len(history) :
        history[k].stage = "Skipped" <=> ~history[k].eligible
    /\ \A k \in 1..Len(history) :
        ( /\ history[k].eligible
          /\ \A j \in 1..(k - 1) :
                history[j].node_id = history[k].node_id => ~history[j].eligible )
        => history[k].stage = "Dispatched"
    /\ stage = "Skipped"
       => Len(already_processed_nodes) =
             Cardinality({ k \in 1..Len(history) : history[k].stage = "Dispatched" })

C20_Witness ==
    /\ Len(history) = 2
    /\ history[1].node_id = history[2].node_id
    /\ history[1].stage = "Skipped"
    /\ history[2].stage = "Dispatched"
    /\ Len(sns) = 1
    /\ sns[1].ok
    /\ already_processed_nodes = <<history[2].node_id>>

==========================================================================
